---- MODULE Spec2Model ----
(***************************************************************************)
(* Anime-episode notification subsystem of MyAnilist: the scheduler that   *)
(* materialises pending AnimeAiringNotification rows, the dispatcher that  *)
(* sends due rows, the reconciler/retention cleanup and the AnimeFollow    *)
(* signal handlers.  Time is counted in whole hours.                       *)
(***************************************************************************)
EXTENDS Integers, FiniteSets, Sequences, TLC

(* ---------------------------------------------------------------------- *)
(* Bounds of the model                                                     *)
(* ---------------------------------------------------------------------- *)
MaxTime == 2
MaxEpisode == 1
MaxRows == 2
MaxLimit == 1

Users == {"u1", "u2"}
Shows == {"s1", "s2"}
\* the (user, show) pairs for which follow requests arrive, the users who
\* submit preference updates and the shows whose AniList data changes
FollowPairs == {<<"u1", "s1">>}
PrefUsers == {"u1"}
AiringShows == {"s1"}
Workers == {"w1", "w2"}
\* the most calls of the mail service recorded for one (user, show, episode)
MaxCalls == 2

(* ---------------------------------------------------------------------- *)
(* Program constants                                                       *)
(* ---------------------------------------------------------------------- *)
DefaultHoursBefore == 24
SendLimit == 100
HoursPerDay == 24

NoTime == -1
None == "None"
NoFollow == [exists |-> FALSE]
NoPref == [exists |-> FALSE]
NoEpisode == [airingAt |-> 0, episode |-> 0, present |-> FALSE]

WatchStatuses == {"watching", "plan_to_watch"}
Emails == {"", "mail"}
LeadHours == {1, 2}
Statuses == {"pending", "sent", "failed", "cancelled"}

MsgNotLive == "User no longer following or watch_status changed"
MsgUnfollowed == "User unfollowed anime"
MsgEmailDisabled == "User disabled email notifications"
MsgSendFailed == "Failed to send email"
MsgFetchError == "AniList request failed"
MsgNoneType == "'NoneType' object has no attribute 'get'"

VARIABLES
  now,            \* timezone.now(), in hours
  follows,        \* AnimeFollow table: [Users \X Shows -> follow record | NoFollow]
  prefs,          \* AnimeNotificationPreference table: [Users -> pref | NoPref]
  upstream,       \* AniList nextAiringEpisode per show
  notifications,  \* AnimeAiringNotification table: set of rows
  nextId,         \* next AutoField value of notification_id
  lastResult,     \* what the last finished operation did and returned
  sched,          \* per worker process: position inside an interleaved scheduler
                  \* run or dispatcher pass
  mailCalls       \* history: calls of send_anime_airing_notification per
                  \* (user, show, episode)

vars == <<now, follows, prefs, upstream, notifications, nextId, lastResult, sched, mailCalls>>

(* ---------------------------------------------------------------------- *)
(* Helpers                                                                 *)
(* ---------------------------------------------------------------------- *)
RECURSIVE PermSeqs(_)
PermSeqs(S) ==
  IF S = {} THEN {<<>>}
  ELSE UNION {{<<x>> \o q : q \in PermSeqs(S \ {x})} : x \in S}

Max2(a, b) == IF a >= b THEN a ELSE b

\* still_following subquery: a follow of (user, show) with watch_status
\* 'watching' and notify_email not ''
IsStillFollowing(fl, u, s) ==
  /\ fl[<<u, s>>].exists
  /\ fl[<<u, s>>].watch_status = "watching"
  /\ fl[<<u, s>>].notify_email # ""

KeyExists(store, u, s, e) ==
  \E r \in store : r.user = u /\ r.show = s /\ r.episode = e

NewRow(id, u, s, e, air, na) ==
  [id |-> id, user |-> u, show |-> s, episode |-> e, airing_at |-> air,
   notify_at |-> na, status |-> "pending", sent_at |-> NoTime,
   error_message |-> None]

InsertRowNoConstraint(store, row) ==
  [store |-> store \cup {row}, created |-> TRUE]

\* INSERT guarded by unique_together = [user, anilist_id, episode_number]:
\* a duplicate key raises IntegrityError and nothing is stored
InsertRow(store, row) ==
  IF KeyExists(store, row.user, row.show, row.episode)
  THEN [store |-> store, created |-> FALSE]
  ELSE [store |-> store \cup {row}, created |-> TRUE]

CreateNotificationAlwaysCreate(store, id, u, s, e, air, na) ==
  [store |-> store \cup {NewRow(id, u, s, e, air, na)}, created |-> TRUE]

CreateNotificationOverwrite(store, id, u, s, e, air, na) ==
  IF KeyExists(store, u, s, e)
  THEN [store |-> {IF r.user = u /\ r.show = s /\ r.episode = e
                   THEN NewRow(r.id, u, s, e, air, na) ELSE r : r \in store},
        created |-> FALSE]
  ELSE InsertRow(store, NewRow(id, u, s, e, air, na))

\* create_notification: get_or_create; returns the row only when created
CreateNotification(store, id, u, s, e, air, na) ==
  IF KeyExists(store, u, s, e)
  THEN [store |-> store, created |-> FALSE]
  ELSE InsertRow(store, NewRow(id, u, s, e, air, na))

\* get_active_followers_with_preferences, restricted to one show by the
\* service loop: set of <<user, notify_before_hours or 0 for NULL>>
DisabledUsersNone(pf) == {}

DisabledUsers(pf) ==
  {u \in Users : pf[u].exists /\ (~pf[u].enabled \/ ~pf[u].notify_by_email)}

ActiveFollowers(fl, pf, s) ==
  {<<u, IF pf[u].exists THEN pf[u].notify_before_hours ELSE 0>> :
     u \in {v \in Users : IsStillFollowing(fl, v, s) /\ v \notin DisabledUsers(pf)}}

HoursBeforeNoDefault(h) == h

\* hours_before = notify_before_hours if notify_before_hours else 24
HoursBefore(h) == IF h # 0 THEN h ELSE DefaultHoursBefore

NotifyPlanNoClamp(air, h, t) ==
  LET na == air - HoursBefore(h) IN
  IF na <= t THEN [skip |-> TRUE, at |-> na] ELSE [skip |-> FALSE, at |-> na]

NotifyPlanClampPast(air, h, t) ==
  LET na == air - HoursBefore(h) IN
  IF na < t THEN [skip |-> FALSE, at |-> t]
  ELSE IF na <= t THEN [skip |-> TRUE, at |-> na]
  ELSE [skip |-> FALSE, at |-> na]

NotifyPlanKeepPast(air, h, t) == [skip |-> FALSE, at |-> air - HoursBefore(h)]

\* late-scheduling policy of the scheduler loop
NotifyPlan(air, h, t) ==
  LET na == air - HoursBefore(h) IN
  IF na < t /\ t < air THEN [skip |-> FALSE, at |-> t]
  ELSE IF na <= t THEN [skip |-> TRUE, at |-> na]
  ELSE [skip |-> FALSE, at |-> na]

\* the for-loop of schedule_notifications_for_anime over the followers
RECURSIVE ScheduleLoop(_, _, _, _, _, _, _, _)
ScheduleLoop(store, id, count, todo, s, e, air, t) ==
  IF todo = <<>> THEN [store |-> store, nextId |-> id, scheduled |-> count]
  ELSE
    LET u == Head(todo)[1]
        plan == NotifyPlan(air, Head(todo)[2], t)
    IN IF plan.skip
       THEN ScheduleLoop(store, id, count, Tail(todo), s, e, air, t)
       ELSE LET c == CreateNotification(store, id, u, s, e, air, plan.at)
            IN IF c.created
               THEN ScheduleLoop(c.store, id + 1, count + 1, Tail(todo), s, e, air, t)
               ELSE ScheduleLoop(c.store, id, count, Tail(todo), s, e, air, t)

\* what fetch_anime_by_id(...).get('nextAiringEpisode') can give for a show
FetchKinds == {"ok", "error", "no_airing_at", "no_episode"}

Fetched(s, kind) ==
  IF kind = "ok" \/ ~upstream[s].present THEN upstream[s]
  ELSE IF kind = "no_airing_at" THEN [upstream[s] EXCEPT !.airingAt = 0]
  ELSE [upstream[s] EXCEPT !.episode = 0]

EnvResult == [op |-> "env"]

Keys == Users \X Shows \X (1..MaxEpisode)

TypeOK ==
  /\ now \in 0..MaxTime
  /\ nextId \in 1..(MaxRows + 1)
  /\ \A r \in notifications : r.status \in Statuses /\ r.id < nextId

LiveFollow == [exists |-> TRUE, watch_status |-> "watching", notify_email |-> "mail"]

\* Both users follow show s1 with notifications on, u1 asked to be notified
\* one hour ahead, u2 has no preference row; episode 1 of s1 airs at MaxTime,
\* s2 has no upcoming episode; the notification table is empty.
Init ==
  /\ now = 0
  /\ follows = [p \in Users \X Shows |-> IF p[2] = "s1" THEN LiveFollow ELSE NoFollow]
  /\ prefs = [u \in Users |-> IF u = "u1"
                                THEN [exists |-> TRUE, notify_before_hours |-> 1,
                                      enabled |-> TRUE, notify_by_email |-> TRUE]
                                ELSE NoPref]
  /\ upstream = [s \in Shows |-> IF s = "s1"
                                   THEN [airingAt |-> MaxTime, episode |-> 1, present |-> TRUE]
                                   ELSE NoEpisode]
  /\ notifications = {}
  /\ nextId = 1
  /\ lastResult = EnvResult
  /\ sched = [w \in Workers |-> [pc |-> "idle"]]
  /\ mailCalls = [k \in Keys |-> 0]


(* ---------------------------------------------------------------------- *)
(* Clock                                                                   *)
(* ---------------------------------------------------------------------- *)
Tick ==
  /\ now < MaxTime
  /\ now' = now + 1
  /\ lastResult' = EnvResult
  /\ UNCHANGED <<follows, prefs, upstream, notifications, nextId, sched, mailCalls>>

(* ---------------------------------------------------------------------- *)
(* Scheduler: schedule_notifications_for_anime, run to completion          *)
(* ---------------------------------------------------------------------- *)
ScheduleResult(s, kind, ok, n, repeat) ==
  [op |-> "schedule", show |-> s, fetch |-> kind, success |-> ok,
   scheduled |-> n, repeat |-> repeat]

IsRepeat(s, kind) ==
  /\ lastResult.op = "schedule"
  /\ lastResult.show = s
  /\ lastResult.fetch = kind

ScheduleNotificationsForAnime(s, kind) ==
  LET next == Fetched(s, kind) IN
  /\ IF kind = "error" \/ ~next.present \/ next.airingAt = 0 \/ next.episode = 0
     THEN /\ lastResult' = ScheduleResult(s, kind, FALSE, 0, IsRepeat(s, kind))
          /\ UNCHANGED <<notifications, nextId>>
     ELSE \E todo \in PermSeqs(ActiveFollowers(follows, prefs, s)) :
            LET out == ScheduleLoop(notifications, nextId, 0, todo, s,
                                    next.episode, next.airingAt, now)
            IN /\ out.nextId <= MaxRows + 1
               /\ notifications' = out.store
               /\ nextId' = out.nextId
               /\ lastResult' = ScheduleResult(s, kind, TRUE, out.scheduled, IsRepeat(s, kind))
  /\ UNCHANGED <<now, follows, prefs, upstream, sched, mailCalls>>

(* ---------------------------------------------------------------------- *)
(* Environment: AnimeFollow writes with their signal handlers,             *)
(* preference upserts, AniList data                                        *)
(* ---------------------------------------------------------------------- *)
\* QuerySet.update(status='cancelled', error_message=msg) on the pending
\* rows of one (user, show)
CancelPendingOf(store, u, s, msg) ==
  {IF r.user = u /\ r.show = s /\ r.status = "pending"
   THEN [r EXCEPT !.status = "cancelled", !.error_message = msg]
   ELSE r : r \in store}

HandleAnimeFollowChangesNever(store, u, s, oldEmail, newEmail) == store

HandleAnimeFollowChangesAlways(store, u, s, oldEmail, newEmail) ==
  CancelPendingOf(store, u, s, MsgEmailDisabled)

\* post_save handler handle_anime_follow_changes for an update (created = False)
HandleAnimeFollowChanges(store, u, s, oldEmail, newEmail) ==
  IF oldEmail # "" /\ newEmail = ""
  THEN CancelPendingOf(store, u, s, MsgEmailDisabled)
  ELSE store

FollowKwargs ==
  {[has_status |-> hs, watch_status |-> ws, has_email |-> he, notify_email |-> em] :
     hs \in BOOLEAN, ws \in WatchStatuses, he \in BOOLEAN, em \in Emails}

ApplyKwargs(f, kw) ==
  [exists |-> TRUE,
   watch_status |-> IF kw.has_status THEN kw.watch_status ELSE f.watch_status,
   notify_email |-> IF kw.has_email THEN kw.notify_email ELSE f.notify_email]

NewFollow == [exists |-> TRUE, watch_status |-> "plan_to_watch", notify_email |-> ""]

\* create_or_update_anime_follow: get_or_create, setattr kwargs, then
\* notify_email = user.email, save().  asked_email: the notify_email the
\* view passed down ('' for a request to turn the channel off)
CreateOrUpdateAnimeFollow(u, s, kw) ==
  LET old == IF follows[<<u, s>>].exists THEN follows[<<u, s>>] ELSE NewFollow
      new == [ApplyKwargs(old, kw) EXCEPT !.notify_email = "mail"]
  IN /\ follows' = [follows EXCEPT ![<<u, s>>] = new]
     /\ notifications' = HandleAnimeFollowChanges(notifications, u, s,
                                                  old.notify_email, new.notify_email)
     /\ lastResult' = [op |-> "follow", user |-> u, show |-> s,
                       asked_email |-> IF kw.has_email THEN kw.notify_email ELSE None]
     /\ UNCHANGED <<now, prefs, upstream, nextId, sched, mailCalls>>

\* update_follow / a direct save() of an existing AnimeFollow
UpdateFollow(u, s, kw) ==
  LET old == follows[<<u, s>>]
      new == ApplyKwargs(old, kw)
  IN /\ old.exists
     /\ new # old
     /\ follows' = [follows EXCEPT ![<<u, s>>] = new]
     /\ notifications' = HandleAnimeFollowChanges(notifications, u, s,
                                                  old.notify_email, new.notify_email)
     /\ lastResult' = EnvResult
     /\ UNCHANGED <<now, prefs, upstream, nextId, sched, mailCalls>>

CancelNotificationsOnUnfollowNothing(store, u, s) == store

\* post_delete handler cancel_notifications_on_unfollow
CancelNotificationsOnUnfollow(store, u, s) == CancelPendingOf(store, u, s, MsgUnfollowed)

\* delete_follow / remove_follow with the post_delete handler
DeleteFollow(u, s) ==
  /\ follows[<<u, s>>].exists
  /\ follows' = [follows EXCEPT ![<<u, s>>] = NoFollow]
  /\ notifications' = CancelNotificationsOnUnfollow(notifications, u, s)
  /\ lastResult' = EnvResult
  /\ UNCHANGED <<now, prefs, upstream, nextId, sched, mailCalls>>

PrefKwargs ==
  {[has_hours |-> hh, hours |-> h, has_flags |-> hf, enabled |-> en, notify_by_email |-> be] :
     hh \in BOOLEAN, h \in LeadHours, hf \in BOOLEAN, en \in BOOLEAN, be \in BOOLEAN}

DefaultPref ==
  [exists |-> TRUE, notify_before_hours |-> DefaultHoursBefore,
   enabled |-> TRUE, notify_by_email |-> TRUE]

\* update_user_preference -> create_or_update_preference (update_or_create)
UpdateUserPreference(u, kw) ==
  LET old == IF prefs[u].exists THEN prefs[u] ELSE DefaultPref
      new == [exists |-> TRUE,
              notify_before_hours |-> IF kw.has_hours THEN kw.hours ELSE old.notify_before_hours,
              enabled |-> IF kw.has_flags THEN kw.enabled ELSE old.enabled,
              notify_by_email |-> IF kw.has_flags THEN kw.notify_by_email ELSE old.notify_by_email]
  IN /\ new # prefs[u]
     /\ prefs' = [prefs EXCEPT ![u] = new]
     /\ lastResult' = EnvResult
     /\ UNCHANGED <<now, follows, upstream, notifications, nextId, sched, mailCalls>>

\* AniList changes the show's nextAiringEpisode (new episode, shifted time,
\* or no upcoming episode)
UpstreamValues ==
  {NoEpisode} \cup
  {[airingAt |-> a, episode |-> e, present |-> TRUE] :
     a \in 1..MaxTime, e \in 1..MaxEpisode}

\* AniList moves the airing time of the show's next episode, possibly
\* beyond the last clock value
ShiftedUpstream(s) ==
  {[upstream[s] EXCEPT !.airingAt = a] : a \in 1..(MaxTime + 1)}

SetUpstream(s, v) ==
  /\ v # upstream[s]
  /\ upstream' = [upstream EXCEPT ![s] = v]
  /\ lastResult' = EnvResult
  /\ UNCHANGED <<now, follows, prefs, notifications, nextId, sched, mailCalls>>

(* ---------------------------------------------------------------------- *)
(* Dispatcher                                                              *)
(* ---------------------------------------------------------------------- *)
\* the queryset of get_pending_notifications before slicing, and the
\* auto-cancel update it performs
PendingDueAnyStatus(store, t) == {r \in store : r.notify_at <= t}

PendingDue(store, t) == {r \in store : r.status = "pending" /\ r.notify_at <= t}

AutoCancelNothing(store, fl, t) == store

AutoCancel(store, fl, t) ==
  {IF r \in PendingDue(store, t) /\ ~IsStillFollowing(fl, r.user, r.show)
   THEN [r EXCEPT !.status = "cancelled", !.error_message = MsgNotLive]
   ELSE r : r \in store}

ValidDue(store, fl, t) ==
  {r \in PendingDue(store, t) : IsStillFollowing(fl, r.user, r.show)}

\* [:limit] under Meta.ordering = ['-notify_at']: any `limit` rows such that
\* no row left out has a later notify_at than a row taken
Slices(valid, limit) ==
  {S \in SUBSET valid :
     /\ Cardinality(S) = (IF limit < Cardinality(valid) THEN limit ELSE Cardinality(valid))
     /\ \A a \in S, b \in valid \ S : a.notify_at >= b.notify_at}

\* the ids of the slice in iteration order: notify_at descending
OrderedSeqs(S) ==
  {q \in PermSeqs({r.id : r \in S}) :
     \A i, j \in 1..Len(q) :
       i < j => \A a, b \in S : (a.id = q[i] /\ b.id = q[j]) => a.notify_at >= b.notify_at}

\* get_pending_notifications(limit) called on its own
\* (send_anime_notifications --dry-run uses limit = 100)
GetPendingNotifications(limit) ==
  LET store1 == AutoCancel(notifications, follows, now) IN
  \E S \in Slices(ValidDue(store1, follows, now), limit) :
    /\ notifications' = store1
    /\ lastResult' = [op |-> "get_pending", limit |-> limit,
                      returned |-> {r.id : r \in S},
                      cancelled |-> {r.id : r \in notifications \ store1}]
    /\ UNCHANGED <<now, follows, prefs, upstream, nextId, sched, mailCalls>>

\* update_notification_status
UpdateNotificationStatus(store, id, status, msg, t) ==
  {IF r.id = id
   THEN [r EXCEPT !.status = status,
                  !.sent_at = IF status = "sent" THEN t ELSE r.sent_at,
                  !.error_message = IF msg # "" /\ msg # None THEN msg ELSE r.error_message]
   ELSE r : r \in store}

\* what can happen while one due row is processed: the mail is sent, the
\* mail service returns False, or fetch_anime_by_id raises with or without
\* a message
Outcomes == {"sent_ok", "send_false", "raise_msg", "raise_empty"}

\* the same with the display-info fetch spelled out: fetch_anime_by_id
\* returns a Media without title or cover (the .get defaults apply and the
\* mail service returns True or False), returns None (anime_data.get raises
\* AttributeError) or raises RuntimeError
DisplayOutcomes ==
  {"sent_ok", "send_false", "no_title_ok", "no_title_false", "fetch_none", "raise_msg"}

\* the outcomes in which send_anime_airing_notification is reached
MailServiceCalled(o) == o \in {"sent_ok", "send_false", "no_title_ok", "no_title_false"}

\* str(e) of the exception caught by the loop
ExceptionText(o) ==
  IF o = "raise_msg" THEN MsgFetchError
  ELSE IF o = "fetch_none" THEN MsgNoneType
  ELSE ""

RECURSIVE SendLoopAbort(_, _, _, _, _, _)
SendLoopAbort(store, todo, outcome, sent, failed, t) ==
  IF todo = <<>> THEN [store |-> store, sent |-> sent, failed |-> failed]
  ELSE
    LET id == Head(todo) IN
    IF outcome[id] = "sent_ok"
    THEN SendLoopAbort(UpdateNotificationStatus(store, id, "sent", None, t),
                       Tail(todo), outcome, sent + 1, failed, t)
    ELSE IF outcome[id] = "send_false"
    THEN SendLoopAbort(UpdateNotificationStatus(store, id, "failed", MsgSendFailed, t),
                       Tail(todo), outcome, sent, failed + 1, t)
    ELSE [store |-> UpdateNotificationStatus(store, id, "failed", MsgFetchError, t),
          sent |-> sent, failed |-> failed + 1]

\* the for-loop of send_pending_notifications
RECURSIVE SendLoop(_, _, _, _, _, _)
SendLoop(store, todo, outcome, sent, failed, t) ==
  IF todo = <<>> THEN [store |-> store, sent |-> sent, failed |-> failed]
  ELSE
    LET id == Head(todo) IN
    IF outcome[id] \in {"sent_ok", "no_title_ok"}
    THEN SendLoop(UpdateNotificationStatus(store, id, "sent", None, t),
                  Tail(todo), outcome, sent + 1, failed, t)
    ELSE IF outcome[id] \in {"send_false", "no_title_false"}
    THEN SendLoop(UpdateNotificationStatus(store, id, "failed", MsgSendFailed, t),
                  Tail(todo), outcome, sent, failed + 1, t)
    ELSE SendLoop(UpdateNotificationStatus(store, id, "failed",
                                           ExceptionText(outcome[id]), t),
                  Tail(todo), outcome, sent, failed + 1, t)

SendPendingNotifications(outs) ==
  LET store1 == AutoCancel(notifications, follows, now) IN
  \E S \in Slices(ValidDue(store1, follows, now), SendLimit) :
  \E outcome \in [{r.id : r \in S} -> outs] :
  \E todo \in OrderedSeqs(S) :
    LET out == SendLoop(store1, todo, outcome, 0, 0, now)
        called == {<<r.user, r.show, r.episode>> : r \in {x \in S : MailServiceCalled(outcome[x.id])}}
    IN
    /\ \A k \in called : mailCalls[k] < MaxCalls
    /\ notifications' = out.store
    /\ mailCalls' = [k \in Keys |-> IF k \in called THEN mailCalls[k] + 1 ELSE mailCalls[k]]
    /\ lastResult' = [op |-> "send", due |-> {r.id : r \in S}, outcome |-> outcome,
                      notified |-> {i \in DOMAIN outcome : MailServiceCalled(outcome[i])},
                      sent |-> out.sent, failed |-> out.failed,
                      total |-> out.sent + out.failed]
    /\ UNCHANGED <<now, follows, prefs, upstream, nextId, sched>>

(* ---------------------------------------------------------------------- *)
(* Reconciler / cleanup and manual cancel                                  *)
(* ---------------------------------------------------------------------- *)
CancelInvalidDueOnly(store, fl) == AutoCancel(store, fl, now)

CancelInvalid(store, fl) ==
  {IF r.status = "pending" /\ ~IsStillFollowing(fl, r.user, r.show)
   THEN [r EXCEPT !.status = "cancelled", !.error_message = MsgNotLive]
   ELSE r : r \in store}

DeleteOldInclusive(store, days, t) ==
  {r \in store :
     ~(\/ r.status = "cancelled"
       \/ (r.status = "sent" /\ r.airing_at <= t - days * HoursPerDay))}

DeleteOldAlsoFailed(store, days, t) ==
  {r \in store :
     ~(\/ r.status \in {"cancelled", "failed"}
       \/ (r.status = "sent" /\ r.airing_at < t - days * HoursPerDay))}

DeleteOld(store, days, t) ==
  {r \in store :
     ~(\/ r.status = "cancelled"
       \/ (r.status = "sent" /\ r.airing_at < t - days * HoursPerDay))}

Days == {0, 1}

CancelInvalidNotifications ==
  /\ notifications' = CancelInvalid(notifications, follows)
  /\ lastResult' = [op |-> "cancel_invalid",
                    cancelled |-> Cardinality(notifications \ notifications')]
  /\ UNCHANGED <<now, follows, prefs, upstream, nextId, sched, mailCalls>>

DeleteOldNotifications(days) ==
  /\ notifications' = DeleteOld(notifications, days, now)
  /\ lastResult' = [op |-> "delete_old", days |-> days,
                    deleted |-> Cardinality(notifications \ notifications')]
  /\ UNCHANGED <<now, follows, prefs, upstream, nextId, sched, mailCalls>>

\* cleanup_old_notifications: cancel_invalid_notifications, then
\* delete_old_notifications
CleanupDeleteFirst(store, fl, days, t) ==
  LET store1 == DeleteOld(store, days, t)
      store2 == CancelInvalid(store1, fl)
  IN [store |-> store2, cancelled |-> Cardinality(store1 \ store2),
      deleted |-> Cardinality(store \ store1)]

Cleanup(store, fl, days, t) ==
  LET store1 == CancelInvalid(store, fl)
      store2 == DeleteOld(store1, days, t)
  IN [store |-> store2, cancelled |-> Cardinality(store \ store1),
      deleted |-> Cardinality(store1 \ store2)]

CleanupOldNotifications(days) ==
  LET out == Cleanup(notifications, follows, days, now) IN
  /\ notifications' = out.store
  /\ lastResult' = [op |-> "cleanup", days |-> days,
                    cancelled |-> out.cancelled, deleted |-> out.deleted]
  /\ UNCHANGED <<now, follows, prefs, upstream, nextId, sched, mailCalls>>

\* cancel_notifications_for_anime (POST cancel endpoint): no error_message
CancelNotificationsForAnime(u, s) ==
  /\ notifications' = {IF r.user = u /\ r.show = s /\ r.status = "pending"
                       THEN [r EXCEPT !.status = "cancelled"] ELSE r : r \in notifications}
  /\ lastResult' = [op |-> "manual_cancel", user |-> u, show |-> s,
                    cancelled |-> Cardinality(notifications \ notifications')]
  /\ UNCHANGED <<now, follows, prefs, upstream, nextId, sched, mailCalls>>

Next ==
  \/ Tick
  \/ \E s \in Shows, kind \in {"ok", "error", "no_episode"} : ScheduleNotificationsForAnime(s, kind)
  \/ \E p \in FollowPairs, kw \in FollowKwargs : CreateOrUpdateAnimeFollow(p[1], p[2], kw)
  \/ \E p \in FollowPairs, kw \in FollowKwargs : UpdateFollow(p[1], p[2], kw)
  \/ \E p \in FollowPairs : DeleteFollow(p[1], p[2])
  \/ \E limit \in (0..MaxLimit) \cup {SendLimit} : GetPendingNotifications(limit)
  \/ SendPendingNotifications(Outcomes)
  \/ CancelInvalidNotifications
  \/ \E days \in Days : DeleteOldNotifications(days)
  \/ \E days \in Days : CleanupOldNotifications(days)
  \/ \E p \in FollowPairs : CancelNotificationsForAnime(p[1], p[2])

Spec == Init /\ [][Next]_vars

(* ---------------------------------------------------------------------- *)
(* Two scheduler runs whose database statements interleave                 *)
(* ---------------------------------------------------------------------- *)
Idle == [pc |-> "idle"]

\* fetch_anime_by_id and the evaluation of the followers queryset
SchedBegin(w, s, kind) ==
  LET next == Fetched(s, kind) IN
  /\ sched[w].pc = "idle"
  /\ IF kind = "error" \/ ~next.present \/ next.airingAt = 0 \/ next.episode = 0
     THEN /\ lastResult' = ScheduleResult(s, kind, FALSE, 0, FALSE)
          /\ UNCHANGED sched
     ELSE /\ sched' = [sched EXCEPT ![w] =
                         [pc |-> "loop", show |-> s, episode |-> next.episode,
                          airing_at |-> next.airingAt,
                          todo |-> ActiveFollowers(follows, prefs, s),
                          count |-> 0, created |-> {}, lost |-> {},
                          user |-> "", notify_at |-> 0]]
          /\ lastResult' = EnvResult
  /\ UNCHANGED <<now, follows, prefs, upstream, notifications, nextId, mailCalls>>

\* one loop iteration up to the SELECT of get_or_create
SchedLookup(w) ==
  /\ sched[w].pc = "loop"
  /\ \E x \in sched[w].todo :
       LET plan == NotifyPlan(sched[w].airing_at, x[2], now) IN
       sched' = [sched EXCEPT ![w] =
                   IF plan.skip \/ KeyExists(notifications, x[1], sched[w].show, sched[w].episode)
                   THEN [@ EXCEPT !.todo = @ \ {x}]
                   ELSE [@ EXCEPT !.todo = @ \ {x}, !.pc = "insert",
                                  !.user = x[1], !.notify_at = plan.at]]
  /\ lastResult' = EnvResult
  /\ UNCHANGED <<now, follows, prefs, upstream, notifications, nextId, mailCalls>>

\* the INSERT of get_or_create; on IntegrityError create_notification
\* returns None and the row is not counted
SchedInsert(w) ==
  LET st == sched[w]
      c == InsertRow(notifications,
                     NewRow(nextId, st.user, st.show, st.episode, st.airing_at, st.notify_at))
  IN /\ st.pc = "insert"
     /\ nextId <= MaxRows
     /\ notifications' = c.store
     /\ nextId' = IF c.created THEN nextId + 1 ELSE nextId
     /\ sched' = [sched EXCEPT ![w] =
                    IF c.created
                    THEN [@ EXCEPT !.pc = "loop", !.count = @ + 1, !.created = @ \cup {st.user}]
                    ELSE [@ EXCEPT !.pc = "loop", !.lost = @ \cup {st.user}]]
     /\ lastResult' = EnvResult
     /\ UNCHANGED <<now, follows, prefs, upstream, mailCalls>>

\* the return after the loop
SchedFinish(w) ==
  /\ sched[w].pc = "loop"
  /\ sched[w].todo = {}
  /\ lastResult' = ScheduleResult(sched[w].show, "ok", TRUE, sched[w].count, FALSE)
  /\ sched' = [sched EXCEPT ![w] = Idle]
  /\ UNCHANGED <<now, follows, prefs, upstream, notifications, nextId, mailCalls>>

NextRace ==
  \/ Tick
  \/ \E w \in Workers, s \in AiringShows, kind \in FetchKinds : SchedBegin(w, s, kind)
  \/ \E w \in Workers : SchedLookup(w)
  \/ \E w \in Workers : SchedInsert(w)
  \/ \E w \in Workers : SchedFinish(w)
  \/ \E days \in Days : DeleteOldNotifications(days)
  \/ \E p \in FollowPairs : CancelNotificationsForAnime(p[1], p[2])

SpecRace == Init /\ [][NextRace]_vars

\* The scheduler against changing preferences and AniList data, with the
\* dispatcher and the manual cancel producing rows in every status.  u1 is
\* the only follower and starts without a preference row (lead time 24);
\* the preference requests set notify_before_hours only.
InitSched ==
  /\ now = 0
  /\ follows = [p \in Users \X Shows |-> IF p = <<"u1", "s1">> THEN LiveFollow ELSE NoFollow]
  /\ prefs = [u \in Users |-> NoPref]
  /\ upstream = [s \in Shows |-> IF s = "s1"
                                   THEN [airingAt |-> MaxTime, episode |-> 1, present |-> TRUE]
                                   ELSE NoEpisode]
  /\ notifications = {}
  /\ nextId = 1
  /\ lastResult = EnvResult
  /\ sched = [w \in Workers |-> [pc |-> "idle"]]
  /\ mailCalls = [k \in Keys |-> 0]

HoursKwargs == {kw \in PrefKwargs : kw.has_hours /\ ~kw.has_flags /\ kw.enabled /\ kw.notify_by_email}

NextSched ==
  \/ Tick
  \/ \E s \in AiringShows, kind \in {"ok", "no_airing_at"} : ScheduleNotificationsForAnime(s, kind)
  \/ \E u \in PrefUsers, kw \in HoursKwargs : UpdateUserPreference(u, kw)
  \/ \E s \in AiringShows, v \in UpstreamValues : SetUpstream(s, v)
  \/ SendPendingNotifications({"sent_ok", "send_false"})
  \/ \E p \in FollowPairs : CancelNotificationsForAnime(p[1], p[2])

SpecSched == InitSched /\ [][NextSched]_vars

\* Retention: the whole life of a row of the single follower u1 (lead time
\* 24) while AniList moves the airing time, with the retention cleanup
NextRetain ==
  \/ Tick
  \/ \E s \in AiringShows : ScheduleNotificationsForAnime(s, "ok")
  \/ \E s \in AiringShows : \E v \in ShiftedUpstream(s) : SetUpstream(s, v)
  \/ SendPendingNotifications({"sent_ok", "send_false"})
  \/ \E days \in Days : DeleteOldNotifications(days)
  \/ \E days \in Days : CleanupOldNotifications(days)
  \/ \E p \in FollowPairs : CancelNotificationsForAnime(p[1], p[2])

SpecRetain == InitSched /\ [][NextRetain]_vars

\* Eligibility: the scheduler while both followers change their preference
\* and u1 changes the Follow
NextElig ==
  \/ Tick
  \/ \E s \in AiringShows : ScheduleNotificationsForAnime(s, "ok")
  \/ \E u \in Users, kw \in PrefKwargs : UpdateUserPreference(u, kw)
  \/ \E p \in FollowPairs, kw \in FollowKwargs : UpdateFollow(p[1], p[2], kw)

SpecElig == Init /\ [][NextElig]_vars

\* One episode from scheduling to retention: u1 is the only follower and has
\* no preference row, episode 1 of s1 airs TraceAiringAt hours after the
\* start, the clock runs until the hour after the airing, cleanup is run with
\* the default 30 days and with 0 days
TraceAiringAt == 30
TraceRetentionDays == {0, 30}

InitTrace ==
  /\ now = 0
  /\ follows = [p \in Users \X Shows |-> IF p = <<"u1", "s1">> THEN LiveFollow ELSE NoFollow]
  /\ prefs = [u \in Users |-> NoPref]
  /\ upstream = [s \in Shows |-> IF s = "s1"
                                   THEN [airingAt |-> TraceAiringAt, episode |-> 1, present |-> TRUE]
                                   ELSE NoEpisode]
  /\ notifications = {}
  /\ nextId = 1
  /\ lastResult = EnvResult
  /\ sched = [w \in Workers |-> [pc |-> "idle"]]
  /\ mailCalls = [k \in Keys |-> 0]

TraceTick ==
  /\ now <= TraceAiringAt
  /\ now' = now + 1
  /\ lastResult' = EnvResult
  /\ UNCHANGED <<follows, prefs, upstream, notifications, nextId, sched, mailCalls>>

NextTrace ==
  \/ TraceTick
  \/ \E s \in AiringShows : ScheduleNotificationsForAnime(s, "ok")
  \/ SendPendingNotifications({"sent_ok", "send_false"})
  \/ \E days \in TraceRetentionDays : CleanupOldNotifications(days)

SpecTrace == InitTrace /\ [][NextTrace]_vars

\* The dispatcher with every result of the display-info fetch
NextDisplay ==
  \/ Tick
  \/ \E s \in AiringShows : ScheduleNotificationsForAnime(s, "ok")
  \/ SendPendingNotifications(DisplayOutcomes)

SpecDisplay == Init /\ [][NextDisplay]_vars

(* ---------------------------------------------------------------------- *)
(* Batch driver: the schedule_anime_notifications command and the          *)
(* scheduling task of run_anime_notifications                              *)
(* ---------------------------------------------------------------------- *)
BatchLimits == {1, 2}

Min2(a, b) == IF a <= b THEN a ELSE b

\* the distinct anilist_id of the follows whose notify_email is not ''
NotifyingShows(fl) ==
  {s \in Shows : \E u \in Users : fl[<<u, s>>].exists /\ fl[<<u, s>>].notify_email # ""}

\* ...distinct()[:limit] carries no ORDER BY: any limit of the ids, in any
\* order, can come back
FollowedAnimeIds(fl, limit) ==
  UNION {PermSeqs(T) :
           T \in {X \in SUBSET NotifyingShows(fl) :
                    Cardinality(X) = Min2(limit, Cardinality(NotifyingShows(fl)))}}

\* schedule_notifications_for_anime as the batch loop calls it: todo is the
\* order in which the followers queryset yields the followers of the show
ScheduleShow(store, id, s, kind, todo, t) ==
  LET next == Fetched(s, kind) IN
  IF kind = "error" \/ ~next.present \/ next.airingAt = 0 \/ next.episode = 0
  THEN [store |-> store, nextId |-> id, success |-> FALSE, scheduled |-> 0]
  ELSE LET out == ScheduleLoop(store, id, 0, todo, s, next.episode, next.airingAt, t)
       IN [store |-> out.store, nextId |-> out.nextId, success |-> TRUE,
           scheduled |-> out.scheduled]

NotRun == [run |-> FALSE, success |-> FALSE, scheduled |-> 0]

RECURSIVE BatchLoopAbort(_, _, _, _, _, _, _, _, _)
BatchLoopAbort(store, id, todo, kinds, orders, t, results, processed, total) ==
  IF todo = <<>>
  THEN [store |-> store, nextId |-> id, results |-> results,
        processed |-> processed, total_scheduled |-> total]
  ELSE LET s == Head(todo)
           r == ScheduleShow(store, id, s, kinds[s], orders[s], t)
       IN IF ~r.success
          THEN [store |-> store, nextId |-> id, results |-> results,
                processed |-> processed, total_scheduled |-> total]
          ELSE BatchLoopAbort(r.store, r.nextId, Tail(todo), kinds, orders, t,
                 [results EXCEPT ![s] = [run |-> TRUE, success |-> r.success,
                                         scheduled |-> r.scheduled]],
                 processed + 1, total + r.scheduled)

\* for anilist_id in followed_anime_ids: one service call per show, the
\* counters processed and total_scheduled
RECURSIVE BatchLoop(_, _, _, _, _, _, _, _, _)
BatchLoop(store, id, todo, kinds, orders, t, results, processed, total) ==
  IF todo = <<>>
  THEN [store |-> store, nextId |-> id, results |-> results,
        processed |-> processed, total_scheduled |-> total]
  ELSE LET s == Head(todo)
           r == ScheduleShow(store, id, s, kinds[s], orders[s], t)
       IN BatchLoop(r.store, r.nextId, Tail(todo), kinds, orders, t,
            [results EXCEPT ![s] = [run |-> TRUE, success |-> r.success,
                                    scheduled |-> r.scheduled]],
            processed + 1,
            IF r.success THEN total + r.scheduled ELSE total)

\* two consecutive runs of the command are two steps also when they print
\* the same: run alternates
NextRun == IF lastResult.op = "batch" THEN 1 - lastResult.run ELSE 0

\* Command.handle of schedule_anime_notifications with --limit, the fetch
\* result kinds[s] for every show
ScheduleAnimeNotifications(limit, kinds) ==
  \E ids \in FollowedAnimeIds(follows, limit) :
    \E orders \in [Shows -> UNION {PermSeqs(ActiveFollowers(follows, prefs, s)) : s \in Shows}] :
      /\ \A s \in Shows : orders[s] \in PermSeqs(ActiveFollowers(follows, prefs, s))
      /\ LET out == BatchLoop(notifications, nextId, ids, kinds, orders, now,
                              [s \in Shows |-> NotRun], 0, 0)
         IN /\ out.nextId <= MaxRows + 1
            /\ notifications' = out.store
            /\ nextId' = out.nextId
            /\ lastResult' = [op |-> "batch", limit |-> limit, ids |-> ids,
                              kinds |-> kinds, results |-> out.results,
                              processed |-> out.processed,
                              total_scheduled |-> out.total_scheduled,
                              run |-> NextRun]
  /\ UNCHANGED <<now, follows, prefs, upstream, sched, mailCalls>>

\* u1 follows s1 and u2 follows s2, both live and without a preference row
\* (lead time 24); both shows air episode 1 at MaxTime
InitBatch ==
  /\ now = 0
  /\ follows = [p \in Users \X Shows |->
                  IF p \in {<<"u1", "s1">>, <<"u2", "s2">>} THEN LiveFollow ELSE NoFollow]
  /\ prefs = [u \in Users |-> NoPref]
  /\ upstream = [s \in Shows |-> [airingAt |-> MaxTime, episode |-> 1, present |-> TRUE]]
  /\ notifications = {}
  /\ nextId = 1
  /\ lastResult = EnvResult
  /\ sched = [w \in Workers |-> [pc |-> "idle"]]
  /\ mailCalls = [k \in Keys |-> 0]

\* every fetch result for the shows with changing AniList data, a good or a
\* throwing fetch for the others
BatchKinds ==
  {k \in [Shows -> FetchKinds] : \A s \in Shows \ AiringShows : k[s] \in {"ok", "error"}}

NextBatch ==
  \/ Tick
  \/ \E limit \in BatchLimits, kinds \in BatchKinds :
       ScheduleAnimeNotifications(limit, kinds)
  \/ \E p \in FollowPairs : CancelNotificationsForAnime(p[1], p[2])

SpecBatch == InitBatch /\ [][NextBatch]_vars

(* ---------------------------------------------------------------------- *)
(* Maintenance entrypoint run_anime_notifications while the database may   *)
(* fail: the INSERT of create_notification, the save() of                  *)
(* update_notification_status, or the cleanup queries raise                *)
(* ---------------------------------------------------------------------- *)
StoreFaults == {"none", "insert", "status_write", "cleanup_query"}

SeqRange(q) == {q[i] : i \in 1..Len(q)}

\* _schedule_notifications.  When the INSERT raises, create_notification
\* logs and returns None for every follower: nothing is stored, nothing is
\* counted, and schedule_notifications_for_anime still returns success True
\* for a show with usable airing data.  lost: the shows for which an insert
\* was attempted and failed.
ScheduleTask(store, id, ids, kinds, orders, t, fault) ==
  IF fault = "insert"
  THEN [store |-> store, nextId |-> id,
        results |-> [s \in Shows |->
                       IF s \in SeqRange(ids)
                       THEN [run |-> TRUE,
                             success |-> ScheduleShow(store, id, s, kinds[s], orders[s], t).success,
                             scheduled |-> 0]
                       ELSE NotRun],
        processed |-> Len(ids), total_scheduled |-> 0,
        lost |-> {s \in SeqRange(ids) :
                    ScheduleShow(store, id, s, kinds[s], orders[s], t).scheduled > 0}]
  ELSE LET out == BatchLoop(store, id, ids, kinds, orders, t,
                            [s \in Shows |-> NotRun], 0, 0)
       IN [store |-> out.store, nextId |-> out.nextId, results |-> out.results,
           processed |-> out.processed, total_scheduled |-> out.total_scheduled,
           lost |-> {}]

\* _send_notifications.  When save() raises, the write after the first mail
\* raises inside the try, the write of the except branch raises again and
\* leaves send_pending_notifications; the task's except logs it.
SendTask(store, todo, outcome, t, fault) ==
  IF fault = "status_write" /\ todo # <<>>
  THEN [store |-> store, sent |-> 0, failed |-> 0, task_failed |-> TRUE,
        tried |-> {Head(todo)}]
  ELSE LET out == SendLoop(store, todo, outcome, 0, 0, t)
       IN [store |-> out.store, sent |-> out.sent, failed |-> out.failed,
           task_failed |-> FALSE, tried |-> SeqRange(todo)]

\* _cleanup_notifications.  When the queries raise, nothing is cancelled or
\* deleted and the task's except logs it.
CleanupTask(store, fl, days, t, fault) ==
  IF fault = "cleanup_query"
  THEN [store |-> store, deleted |-> 0, task_failed |-> TRUE]
  ELSE LET out == Cleanup(store, fl, days, t)
       IN [store |-> out.store, deleted |-> out.deleted, task_failed |-> FALSE]

\* Command.handle of run_anime_notifications with no --skip option: the
\* three tasks one after the other.  Every task body sits in
\* try/except Exception and handle returns normally, so the process exits
\* with status 0.
RunAnimeNotifications(limit, days, fault, kinds, outs) ==
  \E ids \in FollowedAnimeIds(follows, limit) :
  \E orders \in [Shows -> UNION {PermSeqs(ActiveFollowers(follows, prefs, s)) : s \in Shows}] :
    /\ \A s \in Shows : orders[s] \in PermSeqs(ActiveFollowers(follows, prefs, s))
    /\ LET t1 == ScheduleTask(notifications, nextId, ids, kinds, orders, now, fault)
           store1 == AutoCancel(t1.store, follows, now)
       IN
       \E S \in Slices(ValidDue(store1, follows, now), SendLimit) :
       \E outcome \in [{r.id : r \in S} -> outs] :
       \E todo \in OrderedSeqs(S) :
         LET t2 == SendTask(store1, todo, outcome, now, fault)
             t3 == CleanupTask(t2.store, follows, days, now, fault)
             called == {<<r.user, r.show, r.episode>> :
                          r \in {x \in S : x.id \in t2.tried /\ MailServiceCalled(outcome[x.id])}}
         IN /\ t1.nextId <= MaxRows + 1
            /\ \A k \in called : mailCalls[k] < MaxCalls
            /\ notifications' = t3.store
            /\ nextId' = t1.nextId
            /\ mailCalls' = [k \in Keys |-> IF k \in called THEN mailCalls[k] + 1
                                            ELSE mailCalls[k]]
            /\ lastResult' = [op |-> "run", fault |-> fault,
                              schedule |-> t1.results, lost |-> t1.lost,
                              total_scheduled |-> t1.total_scheduled,
                              sent |-> t2.sent, failed |-> t2.failed,
                              deleted |-> t3.deleted,
                              tasks_failed |-> {x \in {"send", "cleanup"} :
                                                  \/ x = "send" /\ t2.task_failed
                                                  \/ x = "cleanup" /\ t3.task_failed},
                              exit_status |-> 0,
                              run |-> IF lastResult.op = "run" THEN 1 - lastResult.run ELSE 0]
    /\ UNCHANGED <<now, follows, prefs, upstream, sched>>

AllOk == [s \in Shows |-> "ok"]

NextOutage ==
  \/ Tick
  \/ \E limit \in BatchLimits, fault \in StoreFaults :
       RunAnimeNotifications(limit, 0, fault, AllOk, {"sent_ok"})

SpecOutage == InitBatch /\ [][NextOutage]_vars

(* ---------------------------------------------------------------------- *)
(* Dispatcher passes whose database statements interleave with each other  *)
(* and with the follow hooks, the manual cancel and the cleanup            *)
(* ---------------------------------------------------------------------- *)
\* get_pending_notifications(limit=100) and len(...) of the queryset: the
\* auto-cancel is committed and the pass keeps the fetched rows
DispatchBegin(w) ==
  LET store1 == AutoCancel(notifications, follows, now) IN
  /\ sched[w].pc = "idle"
  /\ \E S \in Slices(ValidDue(store1, follows, now), SendLimit) :
     \E todo \in OrderedSeqs(S) :
       /\ S # {}
       /\ sched' = [sched EXCEPT ![w] = [pc |-> "send", todo |-> todo, rows |-> S,
                                         attempted |-> {}, sent |-> 0, failed |-> 0]]
  /\ notifications' = store1
  /\ lastResult' = EnvResult
  /\ UNCHANGED <<now, follows, prefs, upstream, nextId, mailCalls>>

\* one iteration of the for-loop: the mail call with outcome o and the
\* update_notification_status that records it
DispatchRow(w, o) ==
  LET st == sched[w]
      id == Head(st.todo)
      row == CHOOSE r \in st.rows : r.id = id
      k == <<row.user, row.show, row.episode>>
  IN /\ st.pc = "send"
     /\ st.todo # <<>>
     /\ MailServiceCalled(o) => mailCalls[k] < MaxCalls
     /\ mailCalls' = IF MailServiceCalled(o) THEN [mailCalls EXCEPT ![k] = @ + 1]
                     ELSE mailCalls
     /\ notifications' =
          IF o = "sent_ok"
          THEN UpdateNotificationStatus(notifications, id, "sent", None, now)
          ELSE IF o = "send_false"
          THEN UpdateNotificationStatus(notifications, id, "failed", MsgSendFailed, now)
          ELSE UpdateNotificationStatus(notifications, id, "failed", ExceptionText(o), now)
     /\ sched' = [sched EXCEPT ![w] =
                    [@ EXCEPT !.todo = Tail(@), !.attempted = @ \cup {id},
                              !.sent = IF o = "sent_ok" THEN @ + 1 ELSE @,
                              !.failed = IF o = "sent_ok" THEN @ ELSE @ + 1]]
     /\ lastResult' = [op |-> "dispatch_row", worker |-> w, id |-> id, outcome |-> o]
     /\ UNCHANGED <<now, follows, prefs, upstream, nextId>>

\* the return after the loop
DispatchFinish(w) ==
  /\ sched[w].pc = "send"
  /\ sched[w].todo = <<>>
  /\ lastResult' = [op |-> "send_pass", worker |-> w, sent |-> sched[w].sent,
                    failed |-> sched[w].failed,
                    total |-> sched[w].sent + sched[w].failed]
  /\ sched' = [sched EXCEPT ![w] = Idle]
  /\ UNCHANGED <<now, follows, prefs, upstream, notifications, nextId, mailCalls>>

NextDispatch ==
  \/ Tick
  \/ \E s \in AiringShows : ScheduleNotificationsForAnime(s, "ok")
  \/ \E w \in Workers : DispatchBegin(w)
  \/ \E w \in Workers, o \in {"sent_ok", "send_false"} : DispatchRow(w, o)
  \/ \E w \in Workers : DispatchFinish(w)
  \/ \E p \in FollowPairs : DeleteFollow(p[1], p[2])
  \/ \E p \in FollowPairs : CancelNotificationsForAnime(p[1], p[2])
  \/ CleanupOldNotifications(0)

SpecDispatch == Init /\ [][NextDispatch]_vars

\* An interleaved scheduler run against the unfollow of u1
NextUnfollow ==
  \/ Tick
  \/ \E w \in Workers, s \in AiringShows : SchedBegin(w, s, "ok")
  \/ \E w \in Workers : SchedLookup(w)
  \/ \E w \in Workers : SchedInsert(w)
  \/ \E w \in Workers : SchedFinish(w)
  \/ \E p \in FollowPairs : DeleteFollow(p[1], p[2])

SpecUnfollow == Init /\ [][NextUnfollow]_vars

\* Repeated runs of the batch driver over a fixed database: any follow
\* table of live and paused follows with a notify_email, any hour before or
\* at the airing time of both shows, no preference rows, an empty
\* notification table with room for a row of every live follow.  The job runner starts the command again and again.
PausedFollow == [exists |-> TRUE, watch_status |-> "plan_to_watch", notify_email |-> "mail"]

InitFixed ==
  /\ now \in 0..MaxTime
  /\ follows \in [Users \X Shows -> {NoFollow, LiveFollow, PausedFollow}]
  /\ Cardinality({p \in Users \X Shows : follows[p] = LiveFollow}) <= MaxRows
  /\ prefs = [u \in Users |-> NoPref]
  /\ upstream = [s \in Shows |-> [airingAt |-> MaxTime, episode |-> 1, present |-> TRUE]]
  /\ notifications = {}
  /\ nextId = 1
  /\ lastResult = EnvResult
  /\ sched = [w \in Workers |-> [pc |-> "idle"]]
  /\ mailCalls = [k \in Keys |-> 0]

\* the limits below the number of shows
SmallLimits == {l \in BatchLimits : l < Cardinality(Shows)}

NextFixed ==
  \E limit \in SmallLimits : ScheduleAnimeNotifications(limit, AllOk)

SpecFixed == InitFixed /\ [][NextFixed]_vars /\ WF_vars(NextFixed)

(* ---------------------------------------------------------------------- *)
(* Properties                                                              *)
(* ---------------------------------------------------------------------- *)
\* "live" per the Follow invariant: watching and a non-empty notify channel
Live(u, s) ==
  /\ follows[<<u, s>>].exists
  /\ follows[<<u, s>>].watch_status = "watching"
  /\ follows[<<u, s>>].notify_email # ""

\* live followers whose preference does not disable notifications
Eligible(u, s) ==
  /\ Live(u, s)
  /\ ~(prefs[u].exists /\ (~prefs[u].enabled \/ ~prefs[u].notify_by_email))

\* the follower's lead time: the stored hours, 24 without a preference
LeadTime(u) == IF prefs[u].exists THEN prefs[u].notify_before_hours ELSE 24

HasRow(store, u, s, e) ==
  \E r \in store : r.user = u /\ r.show = s /\ r.episode = e

RowById(store, id) == CHOOSE r \in store : r.id = id

\* a scheduler run for a show with usable airing data has just returned
ScheduledStep ==
  /\ lastResult'.op = "schedule"
  /\ lastResult'.success
  /\ lastResult' # lastResult \/ notifications' # notifications

\* C1: at most one row per (user, show, episode) in every reachable state,
\* also when two scheduler runs interleave; a run counts exactly the rows it
\* created itself, so the run that loses the insert counts nothing for it.
C1_UniqueRows ==
  /\ \A r1, r2 \in notifications :
       (r1.user = r2.user /\ r1.show = r2.show /\ r1.episode = r2.episode) => r1 = r2
  /\ \A w \in Workers :
       sched[w].pc # "idle" =>
         /\ sched[w].count = Cardinality(sched[w].created)
         /\ sched[w].lost \cap sched[w].created = {}

C1_LoserSeen ==
  \E w \in Workers :
    /\ sched[w].pc # "idle"
    /\ sched[w].lost # {}
    /\ sched[w].count = 0

\* C2: a scheduler run that directly follows a run for the same show, with
\* nothing changed in between, leaves the store as it is and reports 0.
C2_Idempotent ==
  [][(lastResult'.op = "schedule" /\ lastResult'.repeat)
       => (notifications' = notifications /\ lastResult'.scheduled = 0)]_vars

C2_SecondRun ==
  /\ lastResult.op = "schedule"
  /\ lastResult.repeat
  /\ lastResult.success
  /\ \E r \in notifications : r.show = lastResult.show /\ r.status = "pending"

\* C3: a scheduler run leaves every existing row exactly as it was, whatever
\* its status and whatever happened to the airing time or lead time since,
\* and counts only the rows it added.
C3_ExistingRowsKept ==
  [][lastResult'.op = "schedule"
       => /\ notifications \subseteq notifications'
          /\ lastResult'.scheduled = Cardinality(notifications' \ notifications)]_vars

C3_ShiftedRowKept ==
  /\ lastResult.op = "schedule"
  /\ lastResult.success
  /\ lastResult.scheduled = 0
  /\ \E r \in notifications :
       /\ r.show = lastResult.show
       /\ r.status \in {"sent", "failed", "cancelled"}
       /\ upstream[r.show].present
       /\ r.episode = upstream[r.show].episode
       /\ r.airing_at # upstream[r.show].airingAt
       /\ Eligible(r.user, r.show)

\* C4: with operations run one at a time a row that is sent, failed or
\* cancelled keeps its status for ever, and the rows handed out by
\* get_pending_notifications are pending ones (never a sent row).
C4_TerminalStatuses ==
  [][/\ \A r \in notifications : \A r2 \in notifications' :
          (r2.id = r.id /\ r.status # "pending") => r2.status = r.status
     /\ (lastResult'.op = "send" /\ lastResult' # lastResult)
          => \A r \in notifications : r.id \in lastResult'.due => r.status = "pending"
     /\ (lastResult'.op = "get_pending" /\ lastResult' # lastResult)
          => \A r \in notifications : r.id \in lastResult'.returned => r.status = "pending"]_vars

C4_SentRowNotRedispatched ==
  /\ lastResult.op = "send"
  /\ \E r \in notifications :
       /\ r.status = "sent"
       /\ r.sent_at < now
       /\ r.id \notin lastResult.due
       /\ Live(r.user, r.show)

\* C5: an eligible live follower without a row for the episode, scheduled
\* while airingAt - lead < now < airingAt, gets a pending row with notifyAt = now.
C5_LateWindowClamp ==
  [][ScheduledStep =>
       \A u \in Users :
         LET s == lastResult'.show
             e == upstream[s].episode
             air == upstream[s].airingAt
         IN (/\ Eligible(u, s)
             /\ ~HasRow(notifications, u, s, e)
             /\ air - LeadTime(u) < now
             /\ now < air)
            => \E r \in notifications' :
                 /\ r.user = u /\ r.show = s /\ r.episode = e
                 /\ r.status = "pending"
                 /\ r.notify_at = now
                 /\ r.airing_at = air]_vars

C5_ClampedRow ==
  /\ lastResult.op = "schedule"
  /\ lastResult.scheduled > 0
  /\ \E r \in notifications :
       /\ r.show = lastResult.show
       /\ r.status = "pending"
       /\ r.notify_at = now
       /\ r.airing_at - LeadTime(r.user) < now
       /\ now < r.airing_at

\* C6: once now >= airingAt a scheduler run creates nothing and reports 0.
C6_PastEpisodeSkipped ==
  [][(/\ lastResult'.op = "schedule"
      /\ lastResult'.fetch = "ok"
      /\ upstream[lastResult'.show].present
      /\ now >= upstream[lastResult'.show].airingAt)
       => (notifications' = notifications /\ lastResult'.scheduled = 0)]_vars

C6_PastEpisodeRun ==
  /\ lastResult.op = "schedule"
  /\ lastResult.fetch = "ok"
  /\ lastResult.success
  /\ now >= upstream[lastResult.show].airingAt
  /\ \E u \in Users :
       /\ Eligible(u, lastResult.show)
       /\ ~HasRow(notifications, u, lastResult.show, upstream[lastResult.show].episode)

\* C7: every eligible live follower without a row gets one whenever
\* now < airingAt, with notifyAt = max(now, airingAt - lead); the boundary
\* airingAt - lead = now included.
C7_SkipOnlyWhenAired ==
  [][ScheduledStep =>
       \A u \in Users :
         LET s == lastResult'.show
             e == upstream[s].episode
             air == upstream[s].airingAt
         IN (/\ Eligible(u, s)
             /\ ~HasRow(notifications, u, s, e)
             /\ now < air)
            => \E r \in notifications' :
                 /\ r.user = u /\ r.show = s /\ r.episode = e
                 /\ r.status = "pending"
                 /\ r.notify_at = Max2(now, air - LeadTime(u))]_vars

\* C8: get_pending_notifications cancels every due pending row whose pair
\* is not live, whatever the limit, and hands out at most `limit` rows, all
\* pending, due and live; the dispatcher notifies only rows it was handed.
C8_AutoInvalidation ==
  [][/\ (lastResult'.op \in {"get_pending", "send"})
          => \A r \in notifications :
               (r.status = "pending" /\ r.notify_at <= now /\ ~Live(r.user, r.show))
                 => [r EXCEPT !.status = "cancelled",
                              !.error_message = "User no longer following or watch_status changed"]
                      \in notifications'
     /\ (lastResult'.op = "get_pending" /\ lastResult' # lastResult)
          => /\ Cardinality(lastResult'.returned) <= lastResult'.limit
             /\ \A id \in lastResult'.returned :
                  \E r \in notifications :
                    /\ r.id = id /\ r.status = "pending" /\ r.notify_at <= now
                    /\ Live(r.user, r.show)
                    /\ r \in notifications'
     /\ (lastResult'.op = "send" /\ lastResult' # lastResult)
          => \A id \in lastResult'.notified :
               \E r \in notifications :
                 /\ r.id = id /\ r.status = "pending" /\ r.notify_at <= now
                 /\ Live(r.user, r.show)]_vars

C8_CancelledBeyondLimit ==
  /\ lastResult.op = "get_pending"
  /\ lastResult.limit = 0
  /\ lastResult.cancelled # {}
  /\ \E r \in notifications :
       r.status = "pending" /\ r.notify_at <= now /\ Live(r.user, r.show)

\* C9: after a dispatcher pass every due row whose mail went out is sent with
\* sentAt = now, and every other due row is failed with a non-empty
\* errorMessage ('Failed to send email' when no reason was given).
C9_OutcomeRecorded ==
  lastResult.op = "send" =>
    \A id \in lastResult.due :
      LET r == RowById(notifications, id) IN
      /\ lastResult.outcome[id] = "sent_ok" => (r.status = "sent" /\ r.sent_at = now)
      /\ lastResult.outcome[id] # "sent_ok"
           => /\ r.status = "failed"
              /\ r.error_message \notin {None, ""}
              /\ lastResult.outcome[id] \in {"send_false", "raise_empty"}
                   => r.error_message = "Failed to send email"

\* C10: a dispatcher pass processes every row of its due set; total = sent +
\* failed = size of the due set, sent and failed being the numbers of due rows
\* left sent and failed.
C10_CountsMatch ==
  lastResult.op = "send" =>
    /\ lastResult.total = lastResult.sent + lastResult.failed
    /\ lastResult.total = Cardinality(lastResult.due)
    /\ lastResult.sent =
         Cardinality({r \in notifications : r.id \in lastResult.due /\ r.status = "sent"})
    /\ lastResult.failed =
         Cardinality({r \in notifications : r.id \in lastResult.due /\ r.status = "failed"})

C10_MixedPass ==
  /\ lastResult.op = "send"
  /\ lastResult.sent >= 1
  /\ lastResult.failed >= 1
  /\ \E id \in lastResult.due : lastResult.outcome[id] \in {"raise_msg", "raise_empty"}

\* C11: delete_old_notifications(days) deletes exactly the cancelled rows and
\* the sent rows with airing_at < now - days, returns their number and leaves
\* every other row (pending, failed, younger sent) in the store unchanged.
C11_RetentionExact ==
  [][lastResult'.op = "delete_old"
       => LET gone == {r \in notifications :
                         \/ r.status = "cancelled"
                         \/ (r.status = "sent" /\ r.airing_at < now - lastResult'.days * 24)}
          IN /\ notifications' = notifications \ gone
             /\ lastResult'.deleted = Cardinality(gone)]_vars

C11_AgedSentRowDeleted ==
  /\ lastResult.op = "delete_old"
  /\ lastResult.days = 0
  /\ lastResult.deleted >= 1
  /\ \E k \in Keys :
       /\ mailCalls[k] >= 1
       /\ ~HasRow(notifications, k[1], k[2], k[3])

\* C12: cancel_invalid_notifications cancels exactly the pending rows, due
\* or not, whose pair is not live, leaves the other rows unchanged and returns
\* their number; a second call right after it, and a call with no stale row,
\* change nothing (and return 0).
C12_SweepExact ==
  [][lastResult'.op = "cancel_invalid"
       => LET stale == {r \in notifications : r.status = "pending" /\ ~Live(r.user, r.show)}
          IN /\ notifications' =
                  (notifications \ stale) \cup
                  {[r EXCEPT !.status = "cancelled",
                             !.error_message = "User no longer following or watch_status changed"] :
                     r \in stale}
             /\ lastResult'.cancelled = Cardinality(stale)
             /\ lastResult.op = "cancel_invalid"
                  => (notifications' = notifications /\ lastResult'.cancelled = 0)
             /\ stale = {} => (notifications' = notifications /\ lastResult'.cancelled = 0)]_vars

C12_NotYetDueCancelled ==
  /\ lastResult.op = "cancel_invalid"
  /\ lastResult.cancelled >= 1
  /\ \E r \in notifications :
       /\ r.status = "cancelled"
       /\ r.error_message = MsgNotLive
       /\ r.notify_at > now
       /\ ~Live(r.user, r.show)
  /\ \E r \in notifications : r.status = "pending" /\ Live(r.user, r.show)

\* C13: deleting the Follow of (user, show) cancels, in the same step, every
\* pending row of the pair with 'User unfollowed anime' and changes no other
\* row; a cancel_invalid_notifications sweep afterwards changes no row of a
\* pair without a Follow.
C13_UnfollowCancels ==
  [][/\ \A p \in Users \X Shows :
          (follows[p].exists /\ ~follows'[p].exists)
            => notifications' =
                 {IF r.user = p[1] /\ r.show = p[2] /\ r.status = "pending"
                  THEN [r EXCEPT !.status = "cancelled",
                                 !.error_message = "User unfollowed anime"]
                  ELSE r : r \in notifications}
     /\ lastResult'.op = "cancel_invalid"
          => \A p \in Users \X Shows :
               ~follows[p].exists
                 => \A r \in notifications :
                      (r.user = p[1] /\ r.show = p[2]) => r \in notifications']_vars

C13_SweepAfterUnfollow ==
  /\ lastResult.op = "cancel_invalid"
  /\ \E r \in notifications :
       /\ r.status = "cancelled"
       /\ r.error_message = MsgUnfollowed
       /\ ~follows[<<r.user, r.show>>].exists
  /\ \E r \in notifications : r.status = "pending"

\* C14: every update of an existing Follow in which notify_email goes from
\* non-empty to empty cancels all pending rows of the pair with 'User disabled
\* email notifications' and changes no other row, whatever happens to
\* watch_status in the same update.
C14_ChannelDisableCancels ==
  [][\A p \in Users \X Shows :
       (/\ follows[p].exists /\ follows'[p].exists
        /\ follows[p].notify_email # "" /\ follows'[p].notify_email = "")
         => notifications' =
              {IF r.user = p[1] /\ r.show = p[2] /\ r.status = "pending"
               THEN [r EXCEPT !.status = "cancelled",
                              !.error_message = "User disabled email notifications"]
               ELSE r : r \in notifications}]_vars

C14_DisabledWithStatusChange ==
  /\ lastResult.op = "env"
  /\ \E r \in notifications :
       /\ r.status = "cancelled"
       /\ r.error_message = MsgEmailDisabled
       /\ follows[<<r.user, r.show>>].exists
       /\ follows[<<r.user, r.show>>].notify_email = ""
       /\ follows[<<r.user, r.show>>].watch_status # "watching"

\* C15: an update of a Follow whose notify_email is non-empty before and
\* after (a change of watch_status only) changes no notification row; a
\* pending row is cancelled for not being live only by
\* get_pending_notifications (alone or inside the dispatcher) or the
\* cancel_invalid_notifications sweep (alone or inside cleanup).
C15_WatchStatusKeepsRows ==
  [][/\ \A p \in Users \X Shows :
          (/\ follows[p].exists /\ follows'[p].exists /\ follows'[p] # follows[p]
           /\ follows[p].notify_email # "" /\ follows'[p].notify_email # "")
            => notifications' = notifications
     /\ (\E r \in notifications :
           /\ r.status = "pending"
           /\ [r EXCEPT !.status = "cancelled",
                        !.error_message = "User no longer following or watch_status changed"]
                \in notifications')
          => lastResult'.op \in {"get_pending", "send", "cancel_invalid", "cleanup"}]_vars

C15_PendingRowOfPausedFollow ==
  /\ lastResult.op = "env"
  /\ \E r \in notifications :
       /\ r.status = "pending"
       /\ follows[<<r.user, r.show>>].exists
       /\ follows[<<r.user, r.show>>].watch_status # "watching"
       /\ follows[<<r.user, r.show>>].notify_email # ""

\* C16: a scheduler run creates rows only for users who, at the time of the
\* run, follow the show live (watching, non-empty notify_email) and have no
\* preference with enabled = false or notify_by_email = false; notify_at is
\* computed from the stored notify_before_hours, or from 24 hours when the
\* user has no preference (and is moved up to now when that is past).
C16_OnlyEligibleScheduled ==
  [][lastResult'.op = "schedule"
       => \A r \in notifications' \ notifications :
            LET lead == IF prefs[r.user].exists THEN prefs[r.user].notify_before_hours ELSE 24
            IN /\ r.show = lastResult'.show
               /\ follows[<<r.user, r.show>>].exists
               /\ follows[<<r.user, r.show>>].watch_status = "watching"
               /\ follows[<<r.user, r.show>>].notify_email # ""
               /\ ~(prefs[r.user].exists /\ ~prefs[r.user].enabled)
               /\ ~(prefs[r.user].exists /\ ~prefs[r.user].notify_by_email)
               /\ r.notify_at = Max2(now, r.airing_at - lead)]_vars

C16_DisabledFollowerLeftOut ==
  /\ lastResult.op = "schedule"
  /\ lastResult.scheduled >= 1
  /\ \E u \in Users :
       /\ Live(u, lastResult.show)
       /\ prefs[u].exists /\ ~prefs[u].enabled
       /\ ~HasRow(notifications, u, lastResult.show, upstream[lastResult.show].episode)
  /\ \E r \in notifications :
       /\ r.show = lastResult.show
       /\ prefs[r.user].exists
       /\ r.notify_at = r.airing_at - prefs[r.user].notify_before_hours
       /\ r.notify_at > now

\* C17: a failed row stays in the store exactly as it is in every later
\* step: no scheduler, dispatcher or cleanup pass changes or deletes it, hands
\* it to the mail service again or creates another row for its key.
C17_FailedStaysFailed ==
  [][\A r \in notifications :
       r.status = "failed"
         => /\ r \in notifications'
            /\ \A r2 \in notifications' :
                 (r2.user = r.user /\ r2.show = r.show /\ r2.episode = r.episode) => r2 = r
            /\ mailCalls'[<<r.user, r.show, r.episode>>] = mailCalls[<<r.user, r.show, r.episode>>]
            /\ (lastResult'.op = "send" /\ lastResult' # lastResult)
                 => r.id \notin lastResult'.due]_vars

C17_FailedRowAfterShiftedRun ==
  /\ lastResult.op = "schedule"
  /\ lastResult.success
  /\ lastResult.scheduled = 0
  /\ \E r \in notifications :
       /\ r.status = "failed"
       /\ r.show = lastResult.show
       /\ r.airing_at < now
       /\ upstream[r.show].episode = r.episode
       /\ upstream[r.show].airingAt > now
       /\ Eligible(r.user, r.show)

\* C18: across runs of the scheduler, the dispatcher and the cleanup executed
\* one at a time, also after the airing time has shifted and cleanup has
\* deleted rows, the mail service is called at most once per (user, show,
\* episode).
C18_AtMostOneMail ==
  \A k \in Keys : mailCalls[k] <= 1

\* C19: one live follower without preference, episode airing in 30 hours.
\* A scheduler run on the empty store before airingAt - 24h creates exactly
\* one pending row with notify_at = airingAt - 24h; a dispatcher pass before
\* notify_at sends nothing; a pass at notify_at with the mail service
\* returning True makes the row sent with sent_at = now and reports 1/0/1;
\* cleanup with 30 days on the first day deletes nothing; cleanup with 0 days
\* after airing_at deletes the sent row.
C19_EndToEnd ==
  [][/\ (lastResult'.op = "schedule" /\ notifications = {} /\ now < TraceAiringAt - 24)
          => /\ lastResult'.scheduled = 1
             /\ notifications' =
                  {[id |-> nextId, user |-> "u1", show |-> "s1", episode |-> 1,
                    airing_at |-> TraceAiringAt, notify_at |-> TraceAiringAt - 24,
                    status |-> "pending", sent_at |-> NoTime, error_message |-> None]}
     /\ (lastResult'.op = "send" /\ lastResult' # lastResult
           /\ \A r \in notifications : r.notify_at > now)
          => /\ notifications' = notifications
             /\ mailCalls' = mailCalls
             /\ lastResult'.sent = 0 /\ lastResult'.failed = 0 /\ lastResult'.total = 0
     /\ (lastResult'.op = "send" /\ lastResult' # lastResult)
          => \A r \in notifications :
               (/\ r.status = "pending" /\ r.notify_at = now
                /\ r.id \in DOMAIN lastResult'.outcome
                /\ lastResult'.outcome[r.id] = "sent_ok")
                 => /\ notifications' = {[r EXCEPT !.status = "sent", !.sent_at = now]}
                    /\ lastResult'.sent = 1 /\ lastResult'.failed = 0
                    /\ lastResult'.total = 1
     /\ (lastResult'.op = "cleanup" /\ lastResult'.days = 30 /\ now < 24)
          => (notifications' = notifications /\ lastResult'.deleted = 0)
     /\ (lastResult'.op = "cleanup" /\ lastResult'.days = 0)
          => \A r \in notifications :
               (r.status = "sent" /\ r.airing_at < now)
                 => (r \notin notifications' /\ lastResult'.deleted >= 1)]_vars

C19_TraceCompleted ==
  /\ lastResult.op = "cleanup"
  /\ lastResult.days = 0
  /\ lastResult.deleted = 1
  /\ notifications = {}
  /\ nextId = 2
  /\ now > TraceAiringAt
  /\ mailCalls[<<"u1", "s1", 1>>] = 1

\* C20: whatever the display-info fetch does for a due row (raises, returns
\* None, returns no title or cover), the mail service is still called for the
\* row and the row ends sent or failed according to the mail service's
\* result alone.
C20_DisplayInfoNeverBlocks ==
  lastResult.op = "send" =>
    \A id \in lastResult.due :
      /\ id \in lastResult.notified
      /\ lastResult.outcome[id] \in {"sent_ok", "no_title_ok"}
           => RowById(notifications, id).status = "sent"
      /\ lastResult.outcome[id] \in {"send_false", "no_title_false"}
           => RowById(notifications, id).status = "failed"

(* ---------------------------------------------------------------------- *)
(* C21: a failing show never aborts the batch                              *)
(* ---------------------------------------------------------------------- *)
\* the episode source throws, has no upcoming episode, or gives airing data
\* without airingAt or without the episode number
C21_Fails(s, kind) ==
  kind \in {"error", "no_airing_at", "no_episode"} \/ ~upstream[s].present

RowsOfShow(store, s) == {r \in store : r.show = s}

\* C21: in a scheduler batch over several shows, a show whose episode
\* source throws, has no upcoming episode or lacks airingAt or the episode
\* number is a no-op (reported unsuccessful with scheduled = 0, its rows
\* untouched), and every other show of the batch is processed and scheduled
\* as if the failure had not occurred: every eligible follower whose notify
\* time is still meaningful has a row and the show's count is the number of
\* rows created for it.
C21_FailureIsolated ==
  [][lastResult'.op = "batch" /\ lastResult' # lastResult =>
       LET res == lastResult' IN
       /\ res.processed = Len(res.ids)
       /\ \A i \in 1..Len(res.ids) :
            LET s == res.ids[i] IN
            IF C21_Fails(s, res.kinds[s])
            THEN /\ res.results[s] = [run |-> TRUE, success |-> FALSE, scheduled |-> 0]
                 /\ RowsOfShow(notifications', s) = RowsOfShow(notifications, s)
            ELSE /\ res.results[s].run
                 /\ res.results[s].success
                 /\ \A u \in Users :
                      (/\ Eligible(u, s)
                       /\ now < upstream[s].airingAt
                       /\ upstream[s].airingAt - LeadTime(u) # now)
                        => HasRow(notifications', u, s, upstream[s].episode)
                 /\ res.results[s].scheduled =
                      Cardinality(RowsOfShow(notifications', s) \ RowsOfShow(notifications, s))
                 /\ RowsOfShow(notifications, s) \subseteq RowsOfShow(notifications', s)]_vars

\* a batch over two shows whose first show failed with an exception of the
\* episode source and whose second show got its row
C21_SecondShowScheduled ==
  /\ lastResult.op = "batch"
  /\ Len(lastResult.ids) = 2
  /\ lastResult.kinds[lastResult.ids[1]] = "error"
  /\ lastResult.results[lastResult.ids[1]].run
  /\ lastResult.results[lastResult.ids[2]].scheduled = 1
  /\ lastResult.total_scheduled = 1

(* ---------------------------------------------------------------------- *)
(* C22: an unavailable store is never reported as success                  *)
(* ---------------------------------------------------------------------- *)
\* C22: when the notification store is unavailable during a step of the
\* maintenance entrypoint (the insert of the scheduler, the status write of
\* the dispatcher, the cleanup queries), the step does not report success:
\* no show whose insert failed is returned with success = true, and the
\* exit status of the entrypoint is not 0 when an insert failed or a task
\* ended in its fatal-error branch.
C22_OutageReported ==
  lastResult.op = "run" =>
    /\ \A s \in lastResult.lost : ~lastResult.schedule[s].success
    /\ (lastResult.lost # {} \/ lastResult.tasks_failed # {})
         => lastResult.exit_status # 0

(* ---------------------------------------------------------------------- *)
(* C23: a cancelled row is never overwritten by the dispatcher            *)
(* ---------------------------------------------------------------------- *)
\* C23: the dispatcher's outcome write is conditional on the row still
\* being pending: a row that is cancelled (by the unfollow or
\* channel-disable hook, a manual cancel or a reconciler sweep) after
\* get_pending_notifications returned it keeps status cancelled as long as
\* it exists, in every interleaving.
C23_CancelledNeverOverwritten ==
  [][\A r \in notifications :
       r.status = "cancelled" =>
         \A q \in notifications' : q.id = r.id => q.status = "cancelled"]_vars

(* ---------------------------------------------------------------------- *)
(* C25: overlapping dispatcher passes                                      *)
(* ---------------------------------------------------------------------- *)
\* C25: when two dispatcher passes overlap, no row is passed to the mail
\* service by both of them.
C25_AttemptedByOnePass ==
  \A w1, w2 \in Workers :
    (w1 # w2 /\ sched[w1].pc = "send" /\ sched[w2].pc = "send")
      => sched[w1].attempted \cap sched[w2].attempted = {}

(* ---------------------------------------------------------------------- *)
(* C30: sent_at and error_message agree with the status                    *)
(* ---------------------------------------------------------------------- *)
\* C30: in every reachable state a row has sent_at set exactly when its
\* status is sent, and a row with a non-empty error_message has status
\* failed or cancelled.
C30_FieldsMatchStatus ==
  \A r \in notifications :
    /\ (r.sent_at # NoTime) <=> (r.status = "sent")
    /\ (r.error_message # None /\ r.error_message # "")
         => r.status \in {"failed", "cancelled"}

(* ---------------------------------------------------------------------- *)
(* C24: no pending row survives an unfollow                                *)
(* ---------------------------------------------------------------------- *)
\* C24: in every state in which the Follow of (user, show) has been deleted,
\* no pending row exists for that (user, show), also when the unfollow
\* falls between the scheduler's enumeration of the followers and its
\* insert.
C24_NoPendingAfterUnfollow ==
  \A u \in Users, s \in Shows :
    ~follows[<<u, s>>].exists =>
      ~\E r \in notifications : r.user = u /\ r.show = s /\ r.status = "pending"

(* ---------------------------------------------------------------------- *)
(* C26: repeated batch runs reach every followed show                      *)
(* ---------------------------------------------------------------------- *)
\* C26: with the follow table, the AniList data and the clock held fixed,
\* repeated runs of the batch driver with a limit below the number of
\* followed shows eventually give every live, preference-enabled
\* (user, show) whose next episode has not aired a row for that episode
\* (the table has room for a row of every live follow).
C26_EveryShowEventuallyScheduled ==
  <>(\A u \in Users, s \in Shows :
       (Eligible(u, s) /\ upstream[s].present /\ now < upstream[s].airingAt)
         => HasRow(notifications, u, s, upstream[s].episode))

(* ---------------------------------------------------------------------- *)
(* C27: cleanup cancels before it deletes                                  *)
(* ---------------------------------------------------------------------- *)
\* C27: cleanup_old_notifications(days) runs cancel_invalid_notifications
\* before delete_old_notifications: when it has returned, the table holds
\* no cancelled row and no pending row of a (user, show) that is not live,
\* and the deleted count it reports includes the rows it cancelled in the
\* same call.
C27_CancelThenDelete ==
  lastResult.op = "cleanup" =>
    /\ \A r \in notifications :
         /\ r.status # "cancelled"
         /\ r.status = "pending" => Live(r.user, r.show)
    /\ lastResult.deleted >= lastResult.cancelled

\* a cleanup that cancelled the pending row of a follow that is no longer
\* live and deleted it in the same call, with another row left in the table
C27_CancelledAndDeletedInOneCall ==
  /\ lastResult.op = "cleanup"
  /\ lastResult.cancelled >= 1
  /\ lastResult.deleted >= lastResult.cancelled
  /\ notifications # {}

(* ---------------------------------------------------------------------- *)
(* C28: turning the channel off through create_or_update_anime_follow      *)
(* ---------------------------------------------------------------------- *)
\* C28: after a follow update through create_or_update_anime_follow that
\* asks for an empty notify channel on an existing live Follow, the stored
\* Follow has an empty channel, the (user, show) is no longer live and every
\* pending row of the pair is cancelled.
C28_ChannelOffThroughUpsert ==
  [][(/\ lastResult'.op = "follow"
      /\ lastResult' # lastResult
      /\ lastResult'.asked_email = ""
      /\ Live(lastResult'.user, lastResult'.show))
       => LET u == lastResult'.user
              s == lastResult'.show
          IN /\ follows'[<<u, s>>].notify_email = ""
             /\ ~IsStillFollowing(follows', u, s)
             /\ \A r \in notifications' :
                  (r.user = u /\ r.show = s) => r.status # "pending"]_vars

(* ---------------------------------------------------------------------- *)
(* C29: shape of the rows the scheduler creates                            *)
(* ---------------------------------------------------------------------- *)
\* C29: every row the scheduler creates is pending with sent_at and
\* error_message unset and has now <= notify_at < airing_at at creation;
\* no operation changes notify_at or airing_at of an existing row, so
\* notify_at < airing_at holds for every row in every state.
C29_CreatedRowsWellFormed ==
  [][/\ \A q \in notifications' :
          (\A r \in notifications : r.id # q.id)
            => /\ q.status = "pending"
               /\ q.sent_at = NoTime
               /\ q.error_message = None
               /\ now <= q.notify_at
               /\ q.notify_at < q.airing_at
     /\ \A r \in notifications, q \in notifications' :
          q.id = r.id => (q.notify_at = r.notify_at /\ q.airing_at = r.airing_at)
     /\ \A q \in notifications' : q.notify_at < q.airing_at]_vars

\* a scheduler run has just created a row whose notify time lies ahead
C29_RowCreatedAhead ==
  /\ lastResult.op = "schedule"
  /\ lastResult.scheduled = 1
  /\ \E r \in notifications :
       /\ r.show = lastResult.show
       /\ r.status = "pending"
       /\ r.sent_at = NoTime
       /\ now < r.notify_at
       /\ r.notify_at = r.airing_at - LeadTime(r.user)
====
